---- MODULE Spec2Model ----
(***************************************************************************)
(* Model of trhttp.rest.client: RestClient (request dispatch, retry loop,  *)
(* 401 recovery, body framing) and ResponseContextManager.                 *)
(*                                                                         *)
(* Python values are encoded as follows.                                   *)
(*   None / optional value : <<>> for None, <<v>> for the value v          *)
(*   str                   : a sequence of one-character strings           *)
(*   dict                  : a set of <<key, value>> pairs, one per key    *)
(*   exception             : a record [type, status, reason,               *)
(*                           response_data, response_headers]; a           *)
(*                           non-HttpError exception has status 0          *)
(***************************************************************************)
EXTENDS Integers, Sequences, FiniteSets, TLC

(* ------------------------------ bounds --------------------------------- *)
MaxRetries == 2
MaxBodyLen == 2
MaxConns == 4

None == <<>>
Some(v) == <<v>>

(* ------------------------------ strings -------------------------------- *)
Digits == <<"0", "1", "2", "3", "4", "5", "6", "7", "8", "9",
            "a", "b", "c", "d", "e", "f">>

RECURSIVE Radix(_, _)
Radix(n, base) ==
    IF n < base THEN <<Digits[n + 1]>>
    ELSE Radix(n \div base, base) \o <<Digits[(n % base) + 1]>>

\* str(n) for a non-negative integer
Str(n) == Radix(n, 10)

\* "%x" % n
Hex(n) == Radix(n, 16)

CRLF == <<"\r", "\n">>

RECURSIVE Flatten(_)
Flatten(ss) == IF ss = <<>> THEN <<>> ELSE Head(ss) \o Flatten(Tail(ss))

RECURSIVE LStrip(_, _)
LStrip(s, c) == IF s # <<>> /\ Head(s) = c THEN LStrip(Tail(s), c) ELSE s

RECURSIVE RStrip(_, _)
RStrip(s, c) ==
    IF s # <<>> /\ s[Len(s)] = c THEN RStrip(SubSeq(s, 1, Len(s) - 1), c) ELSE s

\* s.strip(c)
Strip(s, c) == RStrip(LStrip(s, c), c)

(* ------------------------------- dicts --------------------------------- *)
Keys(d) == {p[1] : p \in d}

Get(d, k) == (CHOOSE p \in d : p[1] = k)[2]

\* d.update(u)
Update(d, u) == {p \in d : p[1] \notin Keys(u)} \cup u

\* del d[k]
Del(d, k) == {p \in d : p[1] # k}

(* ------------------------------ requests ------------------------------- *)
\* header names are strings, header values are sequences of characters
Chunked == <<"c", "h", "u", "n", "k", "e", "d">>

\* data kinds: no data, a byte string, a seekable stream (tell/seek/read), and
\* an object with its own chunks() that restarts ("chunker") or continues
\* where it stopped ("oneshot") each time chunks() is called
DataKinds == {"none", "bytes", "stream", "chunker", "oneshot"}

Payload == <<"x", "y", "z", "w">>

\* hasattr(data, "tell") and hasattr(data, "seek")
Seekable(kind) == kind = "stream"

\* the data object keeps a read position that sending advances
Stateful(kind) == kind \in {"stream", "oneshot"}

\* truth value of the data argument
Truthy(kind, content) ==
    /\ kind # "none"
    /\ kind = "bytes" => content # <<>>

\* bytes the data object still has to give from position p
Remaining(kind, content, p) ==
    IF Stateful(kind) THEN SubSeq(content, p + 1, Len(content)) ELSE content

\* send_request arguments
Request(kind, content, start, data_size, chunk_size, headers, params) ==
    [method |-> IF kind = "none" THEN "GET" ELSE "POST",
     path |-> <<"/", "u", "/">>, params |-> params, kind |-> kind,
     content |-> content, start |-> start, headers |-> headers,
     data_size |-> data_size, chunk_size |-> chunk_size]

Body == SubSeq(Payload, 1, MaxBodyLen)

\* the requests offered to the client: no data, an empty and a non-empty byte
\* string, a data_size that is the body's and one that is not, a caller's
\* Content-Length header, a caller's Transfer-Encoding header, a caller's
\* Authorization header, streams at and after their start, chunk producers
Requests ==
    { Request("none", <<>>, 0, None, 1, None,
              Some(<<<<<<"q">>, <<"a", " ">>>>>>)),
      Request("none", <<>>, 0, None, 1,
              Some({<<"Authorization", <<"u">>>>}), None),
      Request("bytes", <<>>, 0, None, 1, None, None),
      Request("bytes", Body, 0, None, 1, None, None),
      Request("bytes", Body, 0, None, MaxBodyLen,
              Some({<<"Content-Length", <<"9">>>>}), None),
      Request("bytes", Body, 0, Some(MaxBodyLen + 1), 1, None, None),
      Request("bytes", Body, 0, None, MaxBodyLen,
              Some({<<"Transfer-Encoding", Chunked>>}), None),
      Request("stream", Body, 0, None, 1, None, None),
      Request("stream", Body, 1, Some(MaxBodyLen - 1), 1, None, None),
      Request("stream", Body, 0, Some(MaxBodyLen), MaxBodyLen, None, None),
      Request("chunker", Body, 0, None, 1, None, None),
      Request("oneshot", Body, 0, Some(MaxBodyLen), 1, None, None) }

(* ------------------------------ responses ------------------------------ *)
Statuses == {200, 401, 500}

ResponseData == <<"r">>

Reason(status) ==
    IF status = 200 THEN "OK"
    ELSE IF status = 401 THEN "Unauthorized"
    ELSE IF status = 500 THEN "Internal Server Error"
    ELSE "Other"

ResponseHeaders(status) ==
    IF status = 401 THEN {<<"WWW-Authenticate", <<"t">>>>}
    ELSE {<<"Server", <<"s">>>>}

Response(status, data) ==
    [status |-> status, reason |-> Reason(status), data |-> data,
     headers |-> ResponseHeaders(status)]

\* HttpError.__init__
HttpError(status, reason, response_data, response_headers) ==
    [type |-> "HttpError", status |-> status, reason |-> reason,
     response_data |-> response_data, response_headers |-> response_headers]

\* the transient (non-HttpError) exceptions the transport raises
ErrorTypes == {"socket.error", "socket.timeout"}

Error(type) ==
    [type |-> type, status |-> 0, reason |-> "", response_data |-> <<>>,
     response_headers |-> {}]

\* validate_response accepting every status
validate_response_accepts(response) == [raised |-> None, read |-> FALSE]

\* validate_response with the lower test off by one
validate_response_lower(response) ==
    IF response.status <= 200 \/ response.status > 299
    THEN [raised |-> Some(HttpError(response.status, response.reason,
                                    response.data, response.headers)),
          read |-> TRUE]
    ELSE [raised |-> None, read |-> FALSE]

\* RestClient.validate_response: the exception raised (None when it returns)
\* and whether response.read() was called
validate_response(response) ==
    IF response.status < 200 \/ response.status > 299
    THEN [raised |-> Some(HttpError(response.status, response.reason,
                                    response.data, response.headers)),
          read |-> TRUE]
    ELSE [raised |-> None, read |-> FALSE]

(* --------------------------- pure helpers ------------------------------ *)
\* urllib.quote_plus on one character of the alphabet used here
QuotePlus(c) == IF c = " " THEN <<"+">> ELSE <<c>>

\* urllib.urlencode on a sequence of (key, value) pairs
RECURSIVE urlencode(_)
urlencode(params) ==
    IF params = <<>> THEN <<>>
    ELSE LET kv == Head(params)
             one == Flatten([i \in 1..Len(kv[1]) |-> QuotePlus(kv[1][i])])
                    \o <<"=">>
                    \o Flatten([i \in 1..Len(kv[2]) |-> QuotePlus(kv[2][i])])
         IN  IF Tail(params) = <<>> THEN one
             ELSE one \o <<"&">> \o urlencode(Tail(params))

\* RestClient._normalize_path
_normalize_path(self_path, path, params) ==
    LET p1 == IF self_path # <<>>
              THEN <<"/">> \o self_path \o <<"/">> \o Strip(path, "/")
              ELSE <<"/">> \o Strip(path, "/")
    IN  IF params # None /\ params[1] # <<>>
        THEN p1 \o <<"?">> \o urlencode(params[1])
        ELSE p1

\* default_headers without the cached auth headers
default_headers_noauth(auth, data_size) ==
    LET size == IF data_size = None THEN 0 ELSE data_size[1]
    IN  {<<"Content-Length", Str(size)>>}

\* RestClient.default_headers
default_headers(auth, data_size) ==
    LET size == IF data_size = None THEN 0 ELSE data_size[1]
        headers == {<<"Content-Length", Str(size)>>}
    IN  IF auth # None /\ auth[1] # {} THEN Update(headers, auth[1])
        ELSE headers

\* the chunk producer: successive chunks of at most size bytes
RECURSIVE Chunks(_, _)
Chunks(bytes, size) ==
    IF bytes = <<>> THEN <<>>
    ELSE IF Len(bytes) <= size THEN <<bytes>>
    ELSE <<SubSeq(bytes, 1, size)>>
         \o Chunks(SubSeq(bytes, size + 1, Len(bytes)), size)

\* "%x\r\n%s\r\n" % (len(chunk), chunk)
Frame(chunk) == Hex(Len(chunk)) \o CRLF \o chunk \o CRLF

\* "0\r\n\r\n"
Terminator == <<"0">> \o CRLF \o CRLF

\* _send_request, lines 205-207: the size used for the headers and the body
EffectiveSize(rq) ==
    IF Truthy(rq.kind, rq.content) /\ rq.data_size = None /\ rq.kind = "bytes"
    THEN Some(Len(rq.content))
    ELSE rq.data_size

\* _send_request, lines 209-216: the headers of the first send
PrepareHeaders(rq, auth) ==
    LET data_size == EffectiveSize(rq)
        h0 == default_headers(auth, data_size)
        h1 == IF rq.headers # None /\ rq.headers[1] # {}
              THEN Update(h0, rq.headers[1]) ELSE h0
    IN  IF Truthy(rq.kind, rq.content) /\ data_size = None
        THEN Update(Del(h1, "Content-Length"),
                    {<<"Transfer-Encoding", Chunked>>})
        ELSE h1

\* the writes of the body of one _do_request call that is not interrupted
BodyWrites(rq, p, data_size) ==
    LET chunks == Chunks(Remaining(rq.kind, rq.content, p), rq.chunk_size)
    IN  IF ~Truthy(rq.kind, rq.content) THEN <<>>
        ELSE IF data_size = None
        THEN [i \in 1..Len(chunks) |-> Frame(chunks[i])] \o <<Terminator>>
        ELSE chunks

\* number of chunks the data object yields from position p
NumChunks(rq, p) ==
    IF ~Truthy(rq.kind, rq.content) THEN 0
    ELSE Len(Chunks(Remaining(rq.kind, rq.content, p), rq.chunk_size))

\* bytes in the first n chunks from position p
RECURSIVE Consumed(_, _)
Consumed(chunks, n) ==
    IF n = 0 \/ chunks = <<>> THEN 0
    ELSE Len(Head(chunks)) + Consumed(Tail(chunks), n - 1)

\* RestClient._do_request on the request rq with its data at position p.
\* fault = -1: the call returns the response rsp.  fault = 0: putrequest,
\* putheader or endheaders raises.  fault = f in 1..n: the send of chunk f
\* raises.  fault = n + 1: the terminator's send or getresponse raises.
\* type is the exception raised at the fault.
_do_request(rq, path, headers, p, data_size, fault, type, rsp) ==
    LET chunks == Chunks(Remaining(rq.kind, rq.content, p), rq.chunk_size)
        n == NumChunks(rq, p)
        all == BodyWrites(rq, p, data_size)
        taken == IF fault = -1 \/ fault > n THEN n ELSE fault
        done == IF fault = -1 THEN Len(all)
                ELSE IF fault = 0 THEN 0
                ELSE IF fault <= n THEN fault - 1
                ELSE n
    IN  [method |-> rq.method, path |-> path, headers |-> headers,
         start |-> p,
         writes |-> SubSeq(all, 1, done),
         pos |-> IF Stateful(rq.kind) /\ Truthy(rq.kind, rq.content)
                 THEN p + Consumed(chunks, taken) ELSE p,
         raised |-> IF fault = -1 THEN None ELSE Some(Error(type)),
         response |-> IF fault = -1 THEN Some(rsp) ELSE None]

(* ------------------------------- state --------------------------------- *)
VARIABLES
    \* RestClient fields
    retries, keepalive, authenticator, self_path,
    auth_headers, last_http_error, connection,
    \* connections: how many were created, and which of them are closed
    created, closed,
    \* the send_request call in progress
    pc, req, retry, pos, dataPos, last_error, exc, response, result,
    \* the ResponseContextManager last returned, and the state before and
    \* the outcome of the last __exit__
    handle, scope,
    \* history of the call in progress: the _do_request calls of the last
    \* attempt, forced authentications made and returned, resends, the data
    \* position at the start and at the end of each attempt, the status of
    \* the call's first response (0: none yet), last_http_error at the start
    \* of the call and the connection at the start of the last attempt
    sent, forced, authed, resends, starts, ends, first_status, lhe0, conn0,
    \* the connection carries a response that has been neither read nor closed
    pending,
    \* non-forced authenticator invocations since construction began; of the
    \* last attempt: whether it invoked the authenticator, and auth_headers
    \* and last_http_error at its start; of the call in progress: a request
    \* was put on a connection carrying an unread response; of the client's
    \* life: forced invocations while every response received was a 401
    \* (-1 once another status was received)
    nonforced, reauth, auth0, lhe1, overlap, life,
    \* validate_response applied to one response
    v_response, v_result

vars == <<retries, keepalive, authenticator, self_path, auth_headers,
          last_http_error, connection, created, closed, pc, req, retry, pos,
          dataPos, last_error, exc, response, result, handle, scope, sent,
          forced, authed, resends, starts, ends, first_status, lhe0, conn0,
          pending, nonforced, reauth, auth0, lhe1, overlap, life,
          v_response, v_result>>

config == <<retries, keepalive, authenticator, self_path>>

history == <<sent, forced, authed, resends, starts, ends, first_status, lhe0,
             conn0, nonforced, reauth, auth0, lhe1, overlap, life>>

validation == <<v_response, v_result>>

AuthHeaders(token) == {<<"Authorization", token>>}

NoRequest == Request("none", <<>>, 0, None, 1, None, None)

NoResult == [kind |-> "none", response |-> None, error |-> None]

NoScope == [fresh |-> FALSE, conn |-> 0, was_closed |-> FALSE,
            raised |-> None, propagated |-> None]

\* what the transport and the server do to one _do_request call that has n
\* chunks to send: it is interrupted at a fault point, or a response arrives
Outcomes(n) ==
    {[fault |-> f, type |-> t, rsp |-> Response(200, ResponseData)] :
        f \in 0..(n + 1), t \in ErrorTypes}
    \cup {[fault |-> -1, type |-> "socket.error",
           rsp |-> Response(st, ResponseData)] : st \in Statuses}

\* what the authenticator does when called with force=True: it raises, or it
\* returns fresh headers
AuthOutcomes ==
    {[raises |-> TRUE, headers |-> {}],
     [raises |-> FALSE, headers |-> AuthHeaders(<<"t", "2">>)]}

\* RestClient.__init__
InitClient ==
    /\ retries \in 0..MaxRetries
    /\ keepalive \in BOOLEAN
    /\ authenticator \in BOOLEAN
    /\ self_path = <<"v">>
    /\ auth_headers = IF authenticator THEN Some(AuthHeaders(<<"t", "1">>))
                      ELSE None
    /\ last_http_error = None
    /\ connection = 1
    /\ created = 1
    /\ closed = {}
    /\ pc = "idle"
    /\ req = NoRequest
    /\ retry = 0
    /\ pos = None
    /\ dataPos = 0
    /\ last_error = None
    /\ exc = None
    /\ response = None
    /\ result = NoResult
    /\ handle = None
    /\ scope = NoScope
    /\ sent = <<>>
    /\ forced = 0
    /\ authed = 0
    /\ resends = 0
    /\ starts = <<>>
    /\ ends = <<>>
    /\ first_status = 0
    /\ lhe0 = None
    /\ conn0 = 1
    /\ pending = FALSE
    /\ nonforced = IF authenticator THEN 1 ELSE 0
    /\ reauth = FALSE
    /\ auth0 = auth_headers
    /\ lhe1 = None
    /\ overlap = FALSE
    /\ life = 0

Init ==
    /\ InitClient
    /\ v_response = Response(200, <<>>)
    /\ v_result = None

(* ------------------------------ actions --------------------------------- *)
\* send_request is entered, and _retry_send_request up to its loop: the data
\* position is captured when the data can tell and seek
send_request(rq) ==
    /\ pc = "idle"
    /\ created + retries <= MaxConns
    /\ pc' = "loop"
    /\ req' = rq
    /\ retry' = 0
    /\ pos' = IF Seekable(rq.kind) THEN Some(rq.start) ELSE None
    /\ dataPos' = rq.start
    /\ last_error' = None
    /\ exc' = None
    /\ response' = None
    /\ result' = NoResult
    /\ scope' = NoScope
    /\ sent' = <<>>
    /\ forced' = 0
    /\ authed' = 0
    /\ resends' = 0
    /\ starts' = <<>>
    /\ ends' = <<>>
    /\ first_status' = 0
    /\ lhe0' = last_http_error
    /\ conn0' = connection
    /\ reauth' = FALSE
    /\ auth0' = auth_headers
    /\ lhe1' = last_http_error
    /\ overlap' = FALSE
    /\ UNCHANGED <<config, auth_headers, last_http_error, connection, created,
                   closed, handle, pending, nonforced, life, validation>>

\* the guard without its last_http_error is None alternative
RetryGuard_recorded(error, lhe) ==
    /\ error.status = 401
    /\ authenticator
    /\ lhe # None
    /\ lhe[1].status # 401

\* the guard without its test of the authenticator
RetryGuard_anyclient(error, lhe) ==
    /\ error.status = 401
    /\ (lhe = None \/ lhe[1].status # 401)

\* the guard without its test of last_http_error
RetryGuard_always(error, lhe) ==
    /\ error.status = 401
    /\ authenticator

\* _send_request, lines 225-228: whether a failed validation is answered by a
\* forced authentication and a resend
RetryGuard(error, lhe) ==
    /\ error.status = 401
    /\ authenticator
    /\ (lhe = None \/ lhe[1].status # 401)

\* RestClient._authenticate
_authenticate(a) ==
    IF authenticator
    THEN IF a.raises
         THEN [auth_headers |-> auth_headers,
               raised |-> Some(Error("socket.error"))]
         ELSE [auth_headers |-> Some(a.headers), raised |-> None]
    ELSE [auth_headers |-> auth_headers, raised |-> None]

\* the exception validate_response raises on what _do_request returned
Validation(t) == validate_response(t.response[1]).raised

\* the error of a failed validation is not recorded
RecordHttpError_kept(previous, error) == previous

\* _send_request line 229: self.last_http_error = error
RecordHttpError(previous, error) == error

\* _send_request lines 229-237, entered with the first _do_request t1 and the
\* HttpError of its validation; a is what the authenticator does and o2 what
\* happens to the resend.  An exception raised here is raised inside the
\* except HttpError clause, so the except Exception clause of the same try
\* statement does not catch it.  headers.update(None) raises TypeError.
Recovery(base, t1, path, headers, data_size, a, o2) ==
    LET au == _authenticate(a)
        h2 == Update(headers, au.auth_headers[1])
        t2 == _do_request(req, path, h2, t1.pos, data_size, o2.fault,
                          o2.type, o2.rsp)
        b1 == [base EXCEPT !.last_http_error =
                               RecordHttpError(last_http_error,
                                               Validation(t1)),
                           !.auth_headers = au.auth_headers,
                           !.forced = 1]
        b2 == [b1 EXCEPT !.authed = 1, !.resends = 1, !.sent = <<t1, t2>>,
                         !.dataPos = t2.pos]
    IN  IF au.raised # None
        THEN [b1 EXCEPT !.pc = "exc", !.exc = au.raised]
        ELSE IF au.auth_headers = None
        THEN [b1 EXCEPT !.pc = "exc", !.exc = Some(Error("TypeError")),
                        !.authed = 1]
        ELSE IF t2.raised # None
        THEN [b2 EXCEPT !.pc = "exc", !.exc = t2.raised]
        ELSE IF Validation(t2) = None
        THEN [b2 EXCEPT !.response = t2.response, !.last_http_error = None]
        ELSE [b2 EXCEPT !.pc = "httperr", !.exc = Validation(t2)]

\* an except Exception clause that also forgets the recorded HTTP error
HandleException_clears(base, e) ==
    [base EXCEPT !.pc = "exc", !.exc = e, !.handled = TRUE,
                 !.last_http_error = None]

\* _send_request lines 240-247: the except Exception clause; the connection
\* is closed and replaced where handled is acted upon
HandleException(base, e) ==
    [base EXCEPT !.pc = "exc", !.exc = e, !.handled = TRUE]

\* RestClient._send_request as a whole, o1 being what happens to the first
\* _do_request: the possible results.  handled: the except Exception clause
\* ran (the connection was closed and replaced).
SendRequestResults(o1) ==
    LET path == _normalize_path(self_path, req.path, req.params)
        data_size == EffectiveSize(req)
        headers == PrepareHeaders(req, auth_headers)
        t1 == _do_request(req, path, headers, dataPos, data_size,
                          o1.fault, o1.type, o1.rsp)
        base == [pc |-> "ok", exc |-> None, response |-> None,
                 last_http_error |-> last_http_error,
                 auth_headers |-> auth_headers, handled |-> FALSE,
                 dataPos |-> t1.pos, sent |-> <<t1>>, forced |-> 0,
                 authed |-> 0, resends |-> 0]
    IN  IF t1.raised # None
        THEN \* lines 240-247
             {HandleException(base, t1.raised)}
        ELSE IF Validation(t1) = None
        THEN \* lines 222-223
             {[base EXCEPT !.response = t1.response,
                           !.last_http_error = None]}
        ELSE IF ~RetryGuard(Validation(t1)[1], last_http_error)
        THEN \* lines 229, 238-239
             {[base EXCEPT !.pc = "httperr", !.exc = Validation(t1),
                           !.last_http_error =
                               RecordHttpError(last_http_error,
                                               Validation(t1))]}
        ELSE {Recovery(base, t1, path, headers, data_size, a, o2) :
                a \in AuthOutcomes, o2 \in Outcomes(NumChunks(req, t1.pos))}

\* the statuses of the responses received by the _do_request calls ts
Answered(ts) ==
    {ts[i].response[1].status :
        i \in {j \in 1..Len(ts) : ts[j].response # None}}

\* forced authenticator invocations while every response was a 401
NextLife(l, ts, f) ==
    IF l = -1 \/ Answered(ts) \ {401} # {} THEN -1 ELSE l + f

\* what happens to the first _do_request of an attempt: on a connection whose
\* last response is unread, getresponse (line 273) raises ResponseNotReady
\* when the transport has not failed before
FirstOutcomes(n) ==
    IF pending
    THEN {o \in Outcomes(n) : o.fault # -1}
         \cup {[fault |-> n + 1, type |-> "httplib.ResponseNotReady",
                rsp |-> Response(200, ResponseData)]}
    ELSE Outcomes(n)

\* the connection is not closed before it is replaced
CloseOnException_noop(cl, c) == cl

\* _send_request line 245: self.connection.close()
CloseOnException(cl, c) == cl \cup {c}

\* one attempt of the loop of _retry_send_request: the call of _send_request
_send_request ==
    /\ pc = "loop"
    /\ retry < retries
    /\ \E o1 \in FirstOutcomes(NumChunks(req, dataPos)) :
       \E r \in SendRequestResults(o1) :
          \* lines 254-259: the connection connects itself when needed
          LET used == IF o1.fault # 0 THEN closed \ {connection} ELSE closed
          IN  /\ pc' = r.pc
              /\ exc' = r.exc
              /\ response' = r.response
              /\ last_http_error' = r.last_http_error
              /\ auth_headers' = r.auth_headers
              /\ dataPos' = r.dataPos
              /\ sent' = r.sent
              /\ forced' = forced + r.forced
              /\ authed' = authed + r.authed
              /\ resends' = resends + r.resends
              /\ ends' = Append(ends, r.dataPos)
              /\ first_status' = IF first_status = 0 /\ o1.fault = -1
                                 THEN o1.rsp.status ELSE first_status
              /\ reauth' = (r.forced = 1)
              /\ life' = NextLife(life, r.sent, r.forced)
              /\ pending' = (r.pc = "ok")
              /\ overlap' = (overlap \/ (pending /\ o1.fault # 0))
              /\ IF r.handled
                 THEN /\ closed' = CloseOnException(used, connection)
                      /\ created' = created + 1
                      /\ connection' = created + 1
                 ELSE /\ closed' = used
                      /\ UNCHANGED <<created, connection>>
    /\ starts' = Append(starts, dataPos)
    /\ conn0' = connection
    /\ auth0' = auth_headers
    /\ lhe1' = last_http_error
    /\ UNCHANGED <<config, req, retry, pos, last_error, result, handle, scope,
                   lhe0, nonforced, validation>>

\* _retry_send_request line 184 and send_request lines 127-128
Return ==
    /\ pc = "ok"
    /\ pc' = "idle"
    /\ result' = [kind |-> "returned", response |-> response, error |-> None]
    /\ handle' = Some([read |-> FALSE, closed |-> FALSE, exited |-> FALSE])
    /\ UNCHANGED <<config, auth_headers, last_http_error, connection, created,
                   closed, req, retry, pos, dataPos, last_error, exc,
                   response, scope, history, pending,
                   validation>>

\* the loop without its except HttpError clause
Reraised_never(e) == FALSE

\* _retry_send_request lines 185-186: the exceptions that leave the loop at
\* once
Reraised(e) == e.type = "HttpError"

RaiseHttpError ==
    /\ pc = "httperr"
    /\ Reraised(exc[1])
    /\ pc' = "idle"
    /\ result' = [kind |-> "raised", response |-> None, error |-> exc]
    /\ UNCHANGED <<config, auth_headers, last_http_error, connection, created,
                   closed, req, retry, pos, dataPos, last_error, exc,
                   response, handle, scope, history, pending,
                   validation>>

\* last_error assigned by the first failing attempt only
NextLastError_first(previous, e) ==
    IF previous = None THEN Some(e) ELSE previous

\* _retry_send_request line 192
NextLastError(previous, e) == Some(e)

\* a reset callback that does not seek
Reset_noseek(captured, p) == p

\* the reset callback of _retry_send_request, lines 174-177 and 194-197
Reset(captured, p) == IF captured # None THEN captured[1] ELSE p

\* _retry_send_request lines 187-197, and the loop's next iteration
CatchException ==
    /\ pc \in {"exc", "httperr"}
    /\ ~(pc = "httperr" /\ Reraised(exc[1]))
    /\ pc' = "loop"
    /\ last_error' = NextLastError(last_error, exc[1])
    /\ dataPos' = Reset(pos, dataPos)
    /\ retry' = retry + 1
    /\ UNCHANGED <<config, auth_headers, last_http_error, connection, created,
                   closed, req, pos, exc, response, result, handle, scope,
                   history, pending,
                   validation>>

\* _retry_send_request line 198; last_error is unbound when no attempt ran
RaiseLastError ==
    /\ pc = "loop"
    /\ retry >= retries
    /\ pc' = "idle"
    /\ result' = [kind |-> "raised", response |-> None,
                  error |-> IF last_error = None
                            THEN Some(Error("UnboundLocalError"))
                            ELSE last_error]
    /\ UNCHANGED <<config, auth_headers, last_http_error, connection, created,
                   closed, req, retry, pos, dataPos, last_error, exc,
                   response, handle, scope, history, pending,
                   validation>>

\* ResponseContextManager.__exit__ line 39: the value returned
ExitReturns == FALSE

\* the keepalive test inverted
ExitDrains_inverted == ~keepalive

\* ResponseContextManager.__exit__ line 33: the response is read and closed
ExitDrains == keepalive

\* the connection is not closed at the end of the scope
CloseOnExit_noop(cl, c) == cl

\* ResponseContextManager.__exit__ line 38: self.client.connection.close()
CloseOnExit(cl, c) == cl \cup {c}

\* the response is left unread at the end of the scope
ExitPending_unread(p) == p

\* ResponseContextManager.__exit__ lines 35-38: the response has been read
\* and closed, or the connection carrying it closed
ExitPending(p) == FALSE

\* ResponseContextManager.__exit__; raised is the exception raised inside the
\* scope, if any
Exit(raised) ==
    /\ pc = "idle"
    /\ handle # None
    /\ ~handle[1].exited
    /\ IF ExitDrains
       THEN /\ handle' = Some([read |-> TRUE, closed |-> TRUE,
                               exited |-> TRUE])
            /\ UNCHANGED closed
       ELSE /\ handle' = Some([handle[1] EXCEPT !.exited = TRUE])
            /\ closed' = CloseOnExit(closed, connection)
    /\ pending' = ExitPending(pending)
    /\ scope' = [fresh |-> TRUE, conn |-> connection,
                 was_closed |-> connection \in closed, raised |-> raised,
                 propagated |-> IF ExitReturns THEN None ELSE raised]
    /\ UNCHANGED <<config, auth_headers, last_http_error, connection, created,
                   pc, req, retry, pos, dataPos, last_error, exc, response,
                   result, history,
                   validation>>

Next ==
    \/ \E rq \in Requests : send_request(rq)
    \/ _send_request
    \/ Return
    \/ RaiseHttpError
    \/ CatchException
    \/ RaiseLastError
    \/ \E raised \in {None, Some(Error("ValueError"))} : Exit(raised)

Spec == Init /\ [][Next]_vars

(* ------------- validate_response on responses of any status ------------ *)
StatusSpan == 60

ValidatedResponses ==
    {[status |-> st, reason |-> Reason(st), data |-> d,
      headers |-> ResponseHeaders(st)] :
        st \in (200 - StatusSpan)..(299 + StatusSpan),
        d \in {<<>>, <<"r">>}}

InitValidate ==
    /\ InitClient
    /\ retries = 1
    /\ keepalive
    /\ ~authenticator
    /\ v_response \in ValidatedResponses
    /\ v_result = None

Validate ==
    /\ v_result = None
    /\ v_result' = Some(validate_response(v_response))
    /\ UNCHANGED <<config, auth_headers, last_http_error, connection, created,
                   closed, pc, req, retry, pos, dataPos, last_error, exc,
                   response, result, handle, scope, history, pending,
                   v_response>>

NextValidate == Validate

SpecValidate == InitValidate /\ [][NextValidate]_vars

(* ------------------------------ properties ------------------------------ *)
\* the send_request call has ended (it returned or raised)
Ended == pc = "idle" /\ result.kind # "none"

\* the last _do_request of the last attempt
LastSent == sent[Len(sent)]

Is2xx(t) == t.response # None /\ t.response[1].status \in 200..299

C2_TransientExhausts ==
    /\ (Ended /\ retries >= 1 /\ exc # None /\ exc[1].type # "HttpError") =>
          /\ result.kind = "raised"
          /\ Len(starts) = retries
          /\ result.error = exc
    /\ (Ended /\ retries = 0) =>
          /\ result.kind = "raised"
          /\ Len(starts) = 0

C2_Witness ==
    /\ Ended /\ retries = 2 /\ Len(starts) = 2
    /\ result.kind = "raised"
    /\ result.error = Some(Error("socket.timeout"))
    /\ sent[1].raised = Some(Error("socket.timeout"))
    /\ sent[1].writes # <<>>

\* C3: when an exception other than HttpError leaves _send_request, whether
\* from the first send, the forced authentication or the resend, the
\* connection the attempt started with has been closed and the client holds a
\* newly created, open connection.
C3_ConnectionReplacedOnException ==
    pc = "exc" =>
        /\ conn0 \in closed
        /\ connection # conn0
        /\ connection = created
        /\ connection \notin closed

\* C4: after a completed send/validate sequence last_http_error is absent
\* when the most recent validation succeeded and is otherwise the HttpError
\* of the most recent validation, the one of the resend included.
C4_LastHttpErrorIsLastValidation ==
    pc \in {"ok", "httperr"} => last_http_error = Validation(LastSent)

\* C5: the resend of the 401 recovery transmits the same method, the same
\* path and the same body bytes from the same starting position as the first
\* send; the headers differ at most in those the authenticator returned.
C5_ResendSameRequest ==
    Len(sent) = 2 =>
        /\ sent[2].method = sent[1].method
        /\ sent[2].path = sent[1].path
        /\ sent[2].start = sent[1].start
        /\ (sent[1].raised = None /\ sent[2].raised = None) =>
              sent[2].writes = sent[1].writes
        /\ \A h \in sent[1].headers \cup sent[2].headers :
              h \in sent[1].headers \cap sent[2].headers
              \/ h[1] \in Keys(auth_headers[1])

\* C6: for a data object that can tell and seek, every attempt starts at the
\* position the data had before the first attempt, and after a failed
\* attempt the data is back at that position.
C6_SeekableReset ==
    Seekable(req.kind) =>
        /\ \A k \in 1..Len(starts) : starts[k] = req.start
        /\ pc = "loop" => dataPos = req.start

C6_Witness ==
    /\ Seekable(req.kind)
    /\ Len(starts) >= 2
    /\ ends[1] # starts[1]
    /\ starts[2] = starts[1]
    /\ starts[1] = 1

\* C7: an HttpError leaving an attempt, from the first validation or from
\* the resend's, ends the call at once: no attempt follows it, whatever the
\* budget left, and the call raises the HttpError the attempt produced.
C7_HttpErrorNotRetried ==
    (exc # None /\ exc[1].type = "HttpError") =>
        /\ pc \in {"httperr", "idle"}
        /\ Len(starts) = retry + 1
        /\ exc = Validation(LastSent)
        /\ Ended => (result.kind = "raised" /\ result.error = exc)

C7_Witness ==
    /\ Ended /\ result.kind = "raised"
    /\ retries = 2 /\ Len(starts) = 1
    /\ Len(sent) = 2
    /\ result.error # None /\ result.error[1].status = 500

\* C8: when the scope of a response handle ends, with keepalive the response
\* is read and closed and the client's connection is neither closed nor
\* replaced; without keepalive the connection is closed and the response is
\* not read; in both cases an exception raised inside the scope propagates.
C8_ExitScope ==
    scope.fresh =>
        /\ keepalive =>
              /\ handle[1].read /\ handle[1].closed
              /\ connection = scope.conn
              /\ (connection \in closed) = scope.was_closed
        /\ ~keepalive =>
              /\ scope.conn \in closed
              /\ connection = scope.conn
              /\ ~handle[1].read
        /\ scope.propagated = scope.raised

C8_Witness ==
    /\ scope.fresh
    /\ ~keepalive
    /\ ~scope.was_closed
    /\ scope.raised # None
    /\ scope.propagated = scope.raised

\* C9: validate_response raises nothing for a status in 200..299, and for
\* any other status reads the response and raises an HttpError with the
\* response's status, reason, body and headers.
C9_ValidateResponse ==
    v_result # None =>
        IF v_response.status \in 200..299
        THEN v_result[1].raised = None
        ELSE /\ v_result[1].read
             /\ v_result[1].raised # None
             /\ v_result[1].raised[1].type = "HttpError"
             /\ v_result[1].raised[1].status = v_response.status
             /\ v_result[1].raised[1].reason = v_response.reason
             /\ v_result[1].raised[1].response_data = v_response.data
             /\ v_result[1].raised[1].response_headers = v_response.headers

C9_Witness ==
    /\ v_result # None
    /\ v_response.status = 300
    /\ v_response.data = <<"r">>
    /\ v_result[1].raised # None

\* a write of the form "%x\r\n%s\r\n" for a non-empty chunk
IsFrame(w) ==
    \E n \in 1..Len(w) :
        /\ Len(w) = Len(Hex(n)) + n + 4
        /\ SubSeq(w, 1, Len(Hex(n)) + 2) = Hex(n) \o CRLF
        /\ SubSeq(w, Len(w) - 1, Len(w)) = CRLF

\* the data_size argument, when given, is the size of what the data has to
\* give
TrueSize(rq) ==
    \/ rq.data_size = None
    \/ rq.data_size = Some(Len(Remaining(rq.kind, rq.content, rq.start)))

\* C10: every request with a body that is sent completely, the caller
\* giving no framing header and no wrong size: without a size the writes are
\* chunk frames ended by exactly one terminator; with a size Content-Length
\* is the number of body bytes written and no write is a frame or terminator.
C10_Framing ==
    \A i \in 1..Len(sent) :
        (/\ sent[i].raised = None
         /\ Truthy(req.kind, req.content)
         /\ TrueSize(req)
         /\ req.headers = None) =>
            IF EffectiveSize(req) = None
            THEN /\ sent[i].writes # <<>>
                 /\ sent[i].writes[Len(sent[i].writes)] = Terminator
                 /\ \A j \in 1..(Len(sent[i].writes) - 1) :
                       /\ sent[i].writes[j] # Terminator
                       /\ IsFrame(sent[i].writes[j])
                 /\ "Content-Length" \notin Keys(sent[i].headers)
            ELSE /\ "Content-Length" \in Keys(sent[i].headers)
                 /\ Get(sent[i].headers, "Content-Length")
                       = Str(Len(Flatten(sent[i].writes)))
                 /\ \A j \in 1..Len(sent[i].writes) :
                       /\ sent[i].writes[j] # Terminator
                       /\ ~IsFrame(sent[i].writes[j])

\* C11: for every request sent, whatever headers the caller supplied: no
\* body write is made when no body is provided; the headers never carry both
\* Content-Length and Transfer-Encoding: chunked; and the body writes are
\* chunk frames and the terminator exactly when Transfer-Encoding: chunked
\* is among the headers.
C11_NoMixedEncodings ==
    \A i \in 1..Len(sent) :
        LET t == sent[i]
            chunked == /\ "Transfer-Encoding" \in Keys(t.headers)
                       /\ Get(t.headers, "Transfer-Encoding") = Chunked
        IN  /\ ~Truthy(req.kind, req.content) => t.writes = <<>>
            /\ ~(chunked /\ "Content-Length" \in Keys(t.headers))
            /\ \A j \in 1..Len(t.writes) :
                  (IsFrame(t.writes[j]) \/ t.writes[j] = Terminator)
                      <=> chunked

\* the authenticator's invocations: one non-forced at construction; a forced
\* one only after a 401 response to the attempt's first send; auth_headers
\* changes only by an invocation
AuthenticatorDiscipline ==
    /\ authenticator => nonforced = 1
    /\ reauth => /\ sent # <<>>
                 /\ sent[1].response # None
                 /\ sent[1].response[1].status = 401
    /\ ~reauth => auth_headers = auth0

\* C12 as stated: the authenticator is invoked once non-forced at
\* construction and afterwards only forced and only after a 401; between
\* invocations the cached auth headers are unchanged, and every request sent
\* carries exactly the cached auth headers.
C12_AuthHeadersOnEveryRequest ==
    /\ AuthenticatorDiscipline
    /\ (sent # <<>> /\ auth0 # None) => auth0[1] \subseteq sent[1].headers
    /\ (Len(sent) = 2 /\ auth_headers # None) =>
          auth_headers[1] \subseteq sent[2].headers

\* C12 amended: as above, except that on the first send of an attempt a
\* header the caller supplied under the name of a cached auth header is sent
\* with the caller's value; the resend after a forced authentication carries
\* the cached auth headers whatever the caller supplied.
C12_AuthHeadersUnlessCallers ==
    /\ AuthenticatorDiscipline
    /\ (sent # <<>> /\ auth0 # None) =>
          \A h \in auth0[1] :
              IF req.headers # None /\ h[1] \in Keys(req.headers[1])
              THEN Get(sent[1].headers, h[1]) = Get(req.headers[1], h[1])
              ELSE h \in sent[1].headers
    /\ (Len(sent) = 2 /\ auth_headers # None) =>
          auth_headers[1] \subseteq sent[2].headers

C12_Witness ==
    /\ authenticator
    /\ req.headers = Some({<<"Authorization", <<"u">>>>})
    /\ Ended /\ result.kind = "returned"
    /\ Len(sent) = 2
    /\ Get(sent[1].headers, "Authorization") = <<"u">>
    /\ Get(sent[2].headers, "Authorization") = <<"t", "2">>
    /\ auth_headers = Some(AuthHeaders(<<"t", "2">>))

\* C13: of the connections created, every one but the client's current one
\* is closed; the current one is the newest; and the connection an attempt
\* sends on is the current one, or the one the attempt itself closed and
\* replaced, never one discarded earlier.
C13_OneLiveConnection ==
    /\ connection = created
    /\ \A c \in 1..created : c # connection => c \in closed
    /\ \/ conn0 = connection
       \/ /\ conn0 = connection - 1
          /\ conn0 \in closed
          /\ sent # <<>> /\ sent[1].raised # None

C13_Witness ==
    /\ created = 3
    /\ closed = {1, 2}
    /\ pc = "ok"
    /\ conn0 = 3
    /\ Len(starts) = 2

\* the scope of the last response handle returned has not been ended; during
\* a call that is the handle of the call before
ScopeOpen == handle # None /\ ~handle[1].exited

\* C14 as stated: whatever the order of send_request calls and ends of
\* response scopes, no request is put on a connection whose previous
\* response is still unread.
C14_NoPipelining == ~overlap

\* C14 amended: a response is left unread on the connection only while the
\* scope of its handle is open, and a request is put on a connection
\* carrying an unread response only by a call issued while the scope of the
\* previous handle was still open.
C14_NoPipeliningAfterScope ==
    /\ pending => (pc = "ok" \/ ScopeOpen)
    /\ (overlap /\ pc # "idle") => ScopeOpen

C14_Witness ==
    /\ keepalive
    /\ handle # None /\ handle[1].exited /\ handle[1].read
    /\ pc = "ok"
    /\ created = 1
    /\ Len(starts) = 1
    /\ ~overlap

\* C15 as stated: without keepalive, the end of a response handle's scope
\* leaves the client holding a newly created connection, distinct from the
\* one that carried the response.
C15_ExitReplacesConnection ==
    (scope.fresh /\ ~keepalive) =>
        /\ connection # scope.conn
        /\ connection \notin closed

\* C15 amended: without keepalive, the end of a response handle's scope
\* closes the client's connection and creates none: the client holds the
\* same connection handle, closed, and no connection has been created since
\* the last attempt.
C15_ExitClosesConnection ==
    (scope.fresh /\ ~keepalive) =>
        /\ connection = scope.conn
        /\ connection \in closed
        /\ created = connection

C15_Witness ==
    /\ scope.fresh
    /\ ~keepalive
    /\ ~scope.was_closed
    /\ scope.raised = None
    /\ connection = 2
    /\ closed = {1, 2}

\* C16: with no authenticator auth_headers is absent in every state, no
\* forced authentication and no resend is made, and an attempt whose
\* response is a 401 makes that one transmission and ends the call with the
\* 401 HttpError raised to the caller.
C16_NoAuthenticator ==
    ~authenticator =>
        /\ auth_headers = None
        /\ forced = 0 /\ resends = 0 /\ ~reauth
        /\ Len(sent) <= 1
        /\ (/\ sent # <<>>
            /\ sent[1].response # None
            /\ sent[1].response[1].status = 401) =>
              /\ pc \in {"httperr", "idle"}
              /\ exc = Validation(sent[1])
              /\ exc[1].status = 401
              /\ Ended => (result.kind = "raised" /\ result.error = exc)

C16_Witness ==
    /\ ~authenticator
    /\ retries = 2
    /\ Ended /\ result.kind = "raised"
    /\ result.error # None /\ result.error[1].status = 401
    /\ Len(starts) = 1 /\ Len(sent) = 1
    /\ lhe0 = None

\* the _do_request calls of the call in progress: one per attempt, and the
\* resends
Transmissions == Len(starts) + resends

\* C17: in one send_request call with retry budget N >= 1, whatever the
\* transient errors and statuses, at most one forced authentication is made
\* and at most N + 1 requests are transmitted.
C17_BoundedReauthAndSends ==
    retries >= 1 =>
        /\ forced <= 1
        /\ resends <= 1
        /\ Transmissions <= retries + 1

C17_Witness ==
    /\ retries = 2
    /\ Ended
    /\ forced = 1
    /\ Transmissions = 3
    /\ lhe0 = None
    /\ last_error # None
    /\ result.error # None /\ result.error[1].status = 401

Is401(e) == e # None /\ e[1].status = 401

\* C18: an attempt entered with a 401 in last_http_error makes no forced
\* authentication and no resend; last_http_error then changes only by a
\* response of another status; and while every response received is a 401
\* the authenticator is force-invoked at most once in the client's life.
C18_Recorded401BlocksReauth ==
    /\ Is401(lhe1) =>
          /\ ~reauth
          /\ Len(sent) <= 1
          /\ last_http_error # lhe1 =>
                /\ sent # <<>>
                /\ sent[1].response # None
                /\ sent[1].response[1].status # 401
    /\ life <= 1

C18_Witness ==
    /\ authenticator
    /\ Is401(lhe0)
    /\ Ended /\ result.kind = "raised"
    /\ Len(sent) = 1
    /\ sent[1].response # None /\ sent[1].response[1].status = 401
    /\ ~reauth
    /\ life = 1

\* C19: after an attempt whose first send raised a transient error,
\* last_http_error and auth_headers are what they were when the attempt
\* began and the client holds another connection; and in a call entered
\* with a 401 recorded, whatever transient errors its attempts meet, the 401
\* stays recorded until a response is validated and no forced authentication
\* is made.
C19_TransientErrorFrame ==
    /\ (sent # <<>> /\ sent[1].raised # None) =>
          /\ last_http_error = lhe1
          /\ auth_headers = auth0
          /\ ~reauth
          /\ Len(sent) = 1
          /\ connection # conn0
    /\ (Is401(lhe0) /\ pc # "idle") =>
          /\ forced = 0
          /\ pc \in {"loop", "exc"} => last_http_error = lhe0

C19_Witness ==
    /\ authenticator
    /\ Is401(lhe0)
    /\ Len(starts) = 2
    /\ last_error # None /\ last_error[1].type = "socket.timeout"
    /\ sent[1].response # None /\ sent[1].response[1].status = 401
    /\ pc = "httperr"
    /\ forced = 0
    /\ connection # 1

\* C20: a send_request call that has ended returned a response handle
\* exactly when the last request it transmitted was answered by a response
\* of status 200..299, which is the response of the handle, and then
\* last_http_error is absent; in every other case, a retry budget of 0
\* included, it raised an error and returned nothing.
C20_ReturnsOnlyValidated ==
    Ended =>
        /\ result.kind = "returned" <=> (sent # <<>> /\ Is2xx(LastSent))
        /\ result.kind = "returned" =>
              /\ result.response = LastSent.response
              /\ result.error = None
              /\ last_http_error = None
              /\ handle # None
        /\ result.kind # "returned" =>
              /\ result.kind = "raised"
              /\ result.error # None
              /\ result.response = None
        /\ retries = 0 => (result.kind = "raised" /\ sent = <<>>)

C20_Witness ==
    /\ Ended
    /\ retries = 1
    /\ result.kind = "returned"
    /\ Len(sent) = 2
    /\ sent[1].response[1].status = 401
    /\ result.response = Some(Response(200, ResponseData))
    /\ handle = Some([read |-> FALSE, closed |-> FALSE, exited |-> FALSE])

====
